---- MODULE Spec2Model ----
(***************************************************************************)
(* Peer-pairing and session-state engine of the Anonymous_Chats bot:       *)
(* the `users` table of user_db.db and the handlers that read and write    *)
(* its STATUS, PEER_ID and OTP columns.                                    *)
(*                                                                         *)
(* Text columns and texts sent over the wire are sequences of one-char     *)
(* strings, so that slicing, concatenation and the int -> TEXT conversion  *)
(* of SQLite are computed, not assumed.                                    *)
(***************************************************************************)
EXTENDS Integers, Sequences, FiniteSets, TLC

(***************************************************************************)
(* Bounds of the model.                                                    *)
(***************************************************************************)
\* Users that ever contact the bot, per specification.
NumUsers == 2
RandomUsers == 3
ConcUsers == 3
AcceptUsers == 4
\* Accept/Decline buttons delivered and not yet pressed.
MaxRequests == 1
\* Users of the private-link specification: ids of three digits and ids of
\* five digits.
NumShortLinkUsers == 1
NumLongUsers == 1
\* Confirmation requests delivered to an issuer and not yet answered.
MaxConfirmations == 1
\* Users of the specification of interleaved stop and accept handlers.
RaceUsers == 3
BroadcastUsers == 3

Users(n) == {100 * i : i \in 1..n}

LongUsers(n) == {10000 * i : i \in 1..n}

\* Every USER_ID a row can have.
UserIds ==
    Users(NumUsers) \cup Users(RandomUsers) \cup Users(ConcUsers) \cup Users(AcceptUsers)
        \cup Users(NumShortLinkUsers) \cup LongUsers(NumLongUsers) \cup Users(RaceUsers) \cup Users(BroadcastUsers)

(***************************************************************************)
(* Text helpers.                                                           *)
(***************************************************************************)
DigitChars == <<"0", "1", "2", "3", "4", "5", "6", "7", "8", "9">>

RECURSIVE Str(_)
Str(n) == IF n < 10 THEN <<DigitChars[n + 1]>>
          ELSE Append(Str(n \div 10), DigitChars[(n % 10) + 1])

\* SQL NULL as stored in a TEXT column; distinct from the empty string ''.
NULL == <<"NULL">>
EmptyText == <<>>

\* Python truthiness of a fetched TEXT value: None and '' are falsy.
Truthy(t) == t # NULL /\ t # EmptyText

(***************************************************************************)
(* Outcomes of the random generators, a few representatives of each.       *)
(***************************************************************************)
OtpValues == {Str(1000), Str(9999)}
SixDigit == {Str(100000), Str(999999)}
FiveDigit == {Str(10000)}
AnonyNames == { <<"H","i","d","d","e","n","A","1","B","2">>,
                <<"S","e","c","r","e","t","Q","R","S","T">> }

(***************************************************************************)
(* State.                                                                  *)
(***************************************************************************)
VARIABLES
    users,        \* the users table: one row per USER_ID, `present` = row exists
    otp_tasks,    \* users with an OTP cleanup task started and not yet run
    an_requests,  \* Accept/Decline buttons delivered: <<requester, target>>
    pc,           \* per user, the position of a find_random_partner in progress
    user_status,  \* per user, the STATUS that call has read
    partner,      \* per user, the partner_id that call has chosen
    returned,     \* per user, what that call returned
    confirmations,\* confirmation requests delivered: <<claimant, issuer>>
    stop_call,    \* per user, the handle_stop_button in progress and its locals
    accept_call   \* per user, the accept handler in progress and its locals

vars == <<users, otp_tasks, an_requests, pc, user_status, partner, returned,
          confirmations, stop_call, accept_call>>

\* The locals of the find_random_partner calls in progress.
frp_vars == <<pc, user_status, partner, returned>>

\* The locals of every handler in progress.
call_vars == <<frp_vars, stop_call, accept_call>>

NoRow == [present |-> FALSE, PEER_ID |-> NULL, STATUS |-> "", OTP |-> NULL,
          ANONY_NAME |-> NULL]

\* What a handler hands back: the function it ran, its caller, the 'status'
\* of the returned dict (or the branch taken), and the dict's other keys.
NoResult == [op |-> "", user_id |-> 0, status |-> "", partner_id |-> 0,
             connection_string |-> EmptyText, peer_id |-> EmptyText]

\* No handle_stop_button in progress; no accept handler in progress.
NoStopCall == [pc |-> "idle", peer_id |-> NULL, status |-> ""]
NoAcceptCall == [pc |-> "idle", requester_id |-> 0, responder_data |-> NoRow,
                 requester_data |-> NoRow]

Result(op, u, st) == [NoResult EXCEPT !.op = op, !.user_id = u, !.status = st]

\* One possible outcome of a handler run on table tbl: the table it leaves
\* and what it returns.
Outcome(tbl, ret) == [tbl |-> tbl, ret |-> ret]

Init ==
    /\ users = [u \in UserIds |-> NoRow]
    /\ otp_tasks = {}
    /\ an_requests = {}
    /\ pc = [u \in UserIds |-> "idle"]
    /\ user_status = [u \in UserIds |-> ""]
    /\ partner = [u \in UserIds |-> 0]
    /\ returned = [u \in UserIds |-> NoResult]
    /\ confirmations = {}
    /\ stop_call = [u \in UserIds |-> NoStopCall]
    /\ accept_call = [u \in UserIds |-> NoAcceptCall]

\* The decimal text of each USER_ID.
UserIdText == [v \in UserIds |-> Str(v)]

\* WHERE USER_ID = ? : USER_ID is INTEGER, a TEXT parameter is converted.
RowsWithUserId(tbl, t) == {v \in UserIds : tbl[v].present /\ UserIdText[v] = t}

\* Row r with the columns of record set given their new values.
SetColumns(r, set) == [c \in DOMAIN r |-> IF c \in DOMAIN set THEN set[c] ELSE r[c]]

\* UPDATE users SET <set> WHERE USER_ID = <text t>, on table tbl.
UpdateWhereUserId(tbl, t, set) ==
    [v \in UserIds |->
        IF v \in RowsWithUserId(tbl, t) THEN SetColumns(tbl[v], set) ELSE tbl[v]]

(***************************************************************************)
(* Messenger: bot.send_message(chat_id, ...) raises when chat_id is not    *)
(* the id of a chat, or when the environment makes the send fail (the      *)
(* addressee blocked the bot, the API is down).                            *)
(***************************************************************************)
ChatExists(t) == \E v \in UserIds : UserIdText[v] = t

SendOk(t, fails) == ChatExists(t) /\ ~fails

(***************************************************************************)
(* Registration (telegram_db_manager.py).                                  *)
(***************************************************************************)
\* Faulty variant of the registration: the row of a known user is written
\* anew.
add_user_to_users_table_replace(tbl, user_id, anony_name) ==
    [tbl EXCEPT ![user_id] = [present |-> TRUE, PEER_ID |-> EmptyText,
                              STATUS |-> "OPEN", OTP |-> EmptyText,
                              ANONY_NAME |-> anony_name]]

add_user_to_users_table(tbl, user_id, anony_name) ==
    IF tbl[user_id].present THEN tbl
    ELSE [tbl EXCEPT ![user_id] = [present |-> TRUE, PEER_ID |-> EmptyText,
                                   STATUS |-> "OPEN", OTP |-> EmptyText,
                                   ANONY_NAME |-> anony_name]]

(***************************************************************************)
(* Random connection (random_connection.py).                               *)
(***************************************************************************)
\* Faulty variant of the scan: the requester is not excluded.
available_users_any(tbl, user_id) ==
    {v \in UserIds : tbl[v].present /\ tbl[v].STATUS = "OPEN"}

\* SELECT USER_ID FROM users WHERE STATUS = 'OPEN' AND USER_ID != ?
available_users(tbl, user_id) ==
    {v \in UserIds : tbl[v].present /\ tbl[v].STATUS = "OPEN" /\ v # user_id}

\* Faulty variant of the pairing: the partner's row is not written.
PairRandomOneSided(tbl, user_id, partner_id) ==
    UpdateWhereUserId(tbl, Str(user_id),
        [PEER_ID |-> Str(partner_id), STATUS |-> "RANDOM"])

\* The two UPDATEs and the commit that pair user_id with partner_id.
PairRandom(tbl, user_id, partner_id) ==
    LET t1 == UpdateWhereUserId(tbl, Str(user_id),
                  [PEER_ID |-> Str(partner_id), STATUS |-> "RANDOM"])
    IN  UpdateWhereUserId(t1, Str(partner_id),
                  [PEER_ID |-> Str(user_id), STATUS |-> "RANDOM"])

SetOpen(tbl, user_id) ==
    UpdateWhereUserId(tbl, Str(user_id), [STATUS |-> "OPEN"])

\* Faulty variant of the status check: CLOSED is admitted too.
MayRequestRandomOrClosed(status) == status \in {"OPEN", "IDLE", "CLOSED"}

\* The requester's status admits a random connection.
MayRequestRandom(status) == status \in {"OPEN", "IDLE"}

\* find_random_partner run on one snapshot of the table: one outcome per
\* result of random.choice.
find_random_partner(tbl, user_id) ==
    IF ~tbl[user_id].present
    THEN {Outcome(tbl, Result("find_random_partner", user_id, "error"))}
    ELSE IF ~MayRequestRandom(tbl[user_id].STATUS)
    THEN {Outcome(tbl, Result("find_random_partner", user_id, "error"))}
    ELSE IF available_users(tbl, user_id) = {}
    THEN {Outcome(IF tbl[user_id].STATUS # "OPEN" THEN SetOpen(tbl, user_id) ELSE tbl,
                  Result("find_random_partner", user_id, "waiting"))}
    ELSE {Outcome(PairRandom(tbl, user_id, partner_id),
                  [Result("find_random_partner", user_id, "success")
                      EXCEPT !.partner_id = partner_id])
            : partner_id \in available_users(tbl, user_id)}

(***************************************************************************)
(* Private link issuance (private_connection.py) and the OTP cleanup task  *)
(* (otp_clean.py).                                                         *)
(***************************************************************************)
Prefix92 == <<"/", "9", "2">>

StartsWith(text, prefix) ==
    /\ Len(text) >= Len(prefix)
    /\ SubSeq(text, 1, Len(prefix)) = prefix

\* Python's text[lo:hi] for 0 <= lo <= hi, clamped to the text.
Slice(text, lo, hi) ==
    SubSeq(text, lo + 1, IF hi <= Len(text) THEN hi ELSE Len(text))

\* The OTP that verify_private_link reads from a link: the /92 prefix is
\* removed, then characters [6:10].
otp_from_link(link_text) ==
    LET rest == IF StartsWith(link_text, Prefix92)
                THEN Slice(link_text, 3, Len(link_text)) ELSE link_text
    IN  Slice(rest, 6, 10)

generate_connection_string(otp, user_id, six_digit, five_digit) ==
    Prefix92 \o six_digit \o otp \o Str(user_id) \o five_digit

\* The UPDATE of a fresh issuance.
StoreOtp(tbl, user_id, otp) ==
    UpdateWhereUserId(tbl, Str(user_id),
        [STATUS |-> "PRIVATE", OTP |-> otp])

\* Faulty variant of check_user_status: the stored OTP is looked at before the
\* private connection.
check_user_status_otp_first(tbl, user_id) ==
    IF ~tbl[user_id].present
    THEN {Outcome(tbl, Result("check_user_status", user_id, "error"))}
    ELSE IF Truthy(tbl[user_id].OTP)
    THEN {Outcome(tbl, [Result("check_user_status", user_id, "otp_exists")
                          EXCEPT !.connection_string =
                              generate_connection_string(tbl[user_id].OTP, user_id,
                                                         six_digit, five_digit)])
            : six_digit \in SixDigit, five_digit \in FiveDigit}
    ELSE IF Truthy(tbl[user_id].PEER_ID) /\ tbl[user_id].STATUS = "PRIVATE"
    THEN {Outcome(tbl, Result("check_user_status", user_id, "already_connected"))}
    ELSE {Outcome(StoreOtp(tbl, user_id, otp),
                  [Result("check_user_status", user_id, "success")
                      EXCEPT !.connection_string =
                          generate_connection_string(otp, user_id, six_digit, five_digit)])
            : otp \in OtpValues, six_digit \in SixDigit, five_digit \in FiveDigit}

\* check_user_status: one outcome per result of the random generators.
check_user_status(tbl, user_id) ==
    IF ~tbl[user_id].present
    THEN {Outcome(tbl, Result("check_user_status", user_id, "error"))}
    ELSE IF Truthy(tbl[user_id].PEER_ID) /\ tbl[user_id].STATUS = "PRIVATE"
    THEN {Outcome(tbl, Result("check_user_status", user_id, "already_connected"))}
    ELSE IF Truthy(tbl[user_id].OTP)
    THEN {Outcome(tbl, [Result("check_user_status", user_id, "otp_exists")
                          EXCEPT !.connection_string =
                              generate_connection_string(tbl[user_id].OTP, user_id,
                                                         six_digit, five_digit)])
            : six_digit \in SixDigit, five_digit \in FiveDigit}
    ELSE {Outcome(StoreOtp(tbl, user_id, otp),
                  [Result("check_user_status", user_id, "success")
                      EXCEPT !.connection_string =
                          generate_connection_string(otp, user_id, six_digit, five_digit)])
            : otp \in OtpValues, six_digit \in SixDigit, five_digit \in FiveDigit}

KeepOtpStatuses == {"RANDOM", "PRIVATE", "CONNECTED", "CLOSED", "AI"}

\* Faulty variant of the cleanup: the status is not looked at.
clean_otp_any_status(tbl, user_id) ==
    IF ~tbl[user_id].present
    THEN Outcome(tbl, Result("clean_otp", user_id, "not_found"))
    ELSE Outcome(UpdateWhereUserId(tbl, Str(user_id),
                     [OTP |-> EmptyText]),
                 Result("clean_otp", user_id, "cleared"))

\* clean_otp (and clean_otp_directly, the same body) once its sleep is over.
clean_otp(tbl, user_id) ==
    IF ~tbl[user_id].present
    THEN Outcome(tbl, Result("clean_otp", user_id, "not_found"))
    ELSE IF tbl[user_id].STATUS \in KeepOtpStatuses
    THEN Outcome(tbl, Result("clean_otp", user_id, "kept"))
    ELSE Outcome(UpdateWhereUserId(tbl, Str(user_id),
                     [OTP |-> EmptyText]),
                 Result("clean_otp", user_id, "cleared"))

(***************************************************************************)
(* Private link verification (private_link_verifier.py) and the issuer's   *)
(* confirmation.                                                           *)
(***************************************************************************)
\* The least length of a link, /92 removed, that the parser accepts.
MinLinkLen == 20

\* The link with its /92 prefix removed.
StripPrefix92(link_text) ==
    IF StartsWith(link_text, Prefix92) THEN Slice(link_text, 3, Len(link_text))
    ELSE link_text

\* The issuer id that verify_private_link reads from a link: characters
\* [10:-5] of the link without its prefix.
peer_id_from_link(link_text) ==
    LET rest == StripPrefix92(link_text)
    IN  IF Len(rest) - 5 > 10 THEN Slice(rest, 10, Len(rest) - 5) ELSE <<>>

\* Faulty variant of the verification: the pairing writes that follow the
\* return of "confirmation_needed" in the source are executed.
verify_private_link_pairing(tbl, link_text, user_id) ==
    LET peer == peer_id_from_link(link_text)
        R(st) == Result("verify_private_link", user_id, st)
    IN  IF Len(StripPrefix92(link_text)) < MinLinkLen THEN Outcome(tbl, R("invalid_format"))
        ELSE Outcome(UpdateWhereUserId(
                         UpdateWhereUserId(tbl, Str(user_id),
                             [PEER_ID |-> peer, STATUS |-> "PRIVATE"]),
                         peer, [PEER_ID |-> Str(user_id), STATUS |-> "PRIVATE"]),
                     [R("success") EXCEPT !.peer_id = peer])

\* Faulty variant of the verification: the OTP of the link is not compared
\* with the stored one.
verify_private_link_any_otp(tbl, link_text, user_id) ==
    LET peer == peer_id_from_link(link_text)
        R(st) == Result("verify_private_link", user_id, st)
    IN  IF Len(StripPrefix92(link_text)) < MinLinkLen THEN Outcome(tbl, R("invalid_format"))
        ELSE IF Str(user_id) = peer THEN Outcome(tbl, R("self"))
        ELSE IF RowsWithUserId(tbl, peer) = {} THEN Outcome(tbl, R("peer_not_found"))
        ELSE Outcome(tbl, [R("confirmation_needed") EXCEPT !.peer_id = peer])

\* verify_private_link: the table is only read.
verify_private_link(tbl, link_text, user_id) ==
    LET otp  == otp_from_link(link_text)
        peer == peer_id_from_link(link_text)
        rows == RowsWithUserId(tbl, peer)
        R(st) == Result("verify_private_link", user_id, st)
    IN  IF Len(StripPrefix92(link_text)) < MinLinkLen THEN Outcome(tbl, R("invalid_format"))
        ELSE IF Str(user_id) = peer THEN Outcome(tbl, R("self"))
        ELSE IF rows = {} THEN Outcome(tbl, R("peer_not_found"))
        ELSE IF \E v \in rows : ~Truthy(tbl[v].OTP) \/ tbl[v].OTP # otp
        THEN Outcome(tbl, R("otp_mismatch"))
        ELSE Outcome(tbl, [R("confirmation_needed") EXCEPT !.peer_id = peer])

\* The issuer's confirmation of a claim: both rows become PRIVATE with each
\* other as peer and the issuer's OTP is cleared; a confirmation for an OTP
\* already consumed changes nothing.
confirm_private_link(tbl, issuer_id, claimant_id) ==
    IF ~Truthy(tbl[issuer_id].OTP)
    THEN Outcome(tbl, Result("confirm_private_link", issuer_id, "already_connected"))
    ELSE Outcome(UpdateWhereUserId(
                     UpdateWhereUserId(tbl, Str(issuer_id),
                         [PEER_ID |-> Str(claimant_id), STATUS |-> "PRIVATE",
                          OTP |-> EmptyText]),
                     Str(claimant_id), [PEER_ID |-> Str(issuer_id), STATUS |-> "PRIVATE"]),
                 [Result("confirm_private_link", issuer_id, "connected")
                     EXCEPT !.partner_id = claimant_id])

(***************************************************************************)
(* Controls: stop and forward (controls_anonybot.py).                      *)
(***************************************************************************)
get_user_status(tbl, user_id) ==
    IF tbl[user_id].present THEN tbl[user_id].STATUS ELSE "None"

update_user_status(tbl, user_id, new_status) ==
    UpdateWhereUserId(tbl, Str(user_id), [STATUS |-> new_status])

\* UPDATE users SET STATUS = 'CLOSED', PEER_ID = NULL WHERE USER_ID = ?
ClosePeer(tbl, t) ==
    UpdateWhereUserId(tbl, t, [STATUS |-> "CLOSED", PEER_ID |-> NULL])

\* UPDATE users SET PEER_ID = NULL WHERE USER_ID = ?
ClearOwnPeer(tbl, user_id) ==
    UpdateWhereUserId(tbl, Str(user_id), [PEER_ID |-> NULL])

\* What handle_stop_button commits for a user whose row exists and is not
\* CLOSED.  The message to the peer is sent between the peer's UPDATE and the
\* user's own; when it raises (notify_fails, or no such chat) the handler is
\* left through the exception and the user's own PEER_ID is not cleared.
StopTable(tbl, user_id, notify_fails) ==
    LET peer_id == tbl[user_id].PEER_ID
        status  == tbl[user_id].STATUS
        closed  == update_user_status(tbl, user_id, "CLOSED")
    IN  IF status # "BROADCASTER" /\ Truthy(peer_id)
        THEN IF SendOk(peer_id, notify_fails)
             THEN ClearOwnPeer(ClosePeer(closed, peer_id), user_id)
             ELSE ClosePeer(closed, peer_id)
        ELSE ClearOwnPeer(closed, user_id)

handle_stop_button(tbl, user_id) ==
    IF get_user_status(tbl, user_id) = "CLOSED"
    THEN {Outcome(tbl, Result("handle_stop_button", user_id, "already_closed"))}
    ELSE IF ~tbl[user_id].present
    THEN {Outcome(tbl, Result("handle_stop_button", user_id, "not_found"))}
    ELSE {Outcome(StopTable(tbl, user_id, notify_fails),
                  Result("handle_stop_button", user_id, "closed"))
            : notify_fails \in BOOLEAN}

\* Faulty variant of the forward button: a CLOSED user is reopened too.
handle_forward_button_from_closed(tbl, user_id) ==
    IF get_user_status(tbl, user_id) \in {"RANDOM", "CLOSED"}
    THEN Outcome(update_user_status(tbl, user_id, "OPEN"),
                 Result("handle_forward_button", user_id, "OPEN"))
    ELSE Outcome(tbl, Result("handle_forward_button", user_id, "not_valid"))

handle_forward_button(tbl, user_id) ==
    IF get_user_status(tbl, user_id) = "RANDOM"
    THEN Outcome(update_user_status(tbl, user_id, "OPEN"),
                 Result("handle_forward_button", user_id, "OPEN"))
    ELSE Outcome(tbl, Result("handle_forward_button", user_id, "not_valid"))

(***************************************************************************)
(* Anonymous number (anony_number.py).                                     *)
(***************************************************************************)
WordChars ==
    {"a","b","c","d","e","f","g","h","i","j","k","l","m","n","o","p","q","r",
     "s","t","u","v","w","x","y","z","A","B","C","D","E","F","G","H","I","J",
     "K","L","M","N","O","P","Q","R","S","T","U","V","W","X","Y","Z","0","1",
     "2","3","4","5","6","7","8","9","_"}

\* The longest prefix of text made of characters of set cs.
RECURSIVE TakeWhile(_, _)
TakeWhile(text, cs) ==
    IF text = <<>> \/ Head(text) \notin cs THEN <<>>
    ELSE <<Head(text)>> \o TakeWhile(Tail(text), cs)

PrefixAN == <<"/", "A", "N">>

\* re.match(r'/AN(\w+)', message_text).group(1), or <<>> when there is no match.
MatchAN(message_text) ==
    IF StartsWith(message_text, PrefixAN)
    THEN TakeWhile(SubSeq(message_text, 4, Len(message_text)), WordChars)
    ELSE <<>>

\* SELECT ... WHERE ANONY_NAME = ? ; fetchone() takes the row of lowest rowid.
RowsWithAnonyName(tbl, anony_name) ==
    {v \in UserIds : tbl[v].present /\ tbl[v].ANONY_NAME = anony_name}

FirstRow(rows) == CHOOSE v \in rows : \A w \in rows : v <= w

\* Faulty variant of handle_an_command: the sender's own name is not refused.
handle_an_command_no_self_check(tbl, user_id, message_text) ==
    LET anony_name == MatchAN(message_text)
        rows == RowsWithAnonyName(tbl, anony_name)
        R(st) == Result("handle_an_command", user_id, st)
    IN  IF anony_name = <<>> THEN {Outcome(tbl, R("invalid_format"))}
        ELSE IF rows = {} THEN {Outcome(tbl, R("not_exist"))}
        ELSE IF ~tbl[user_id].present THEN {Outcome(tbl, R("profile_not_found"))}
        ELSE {Outcome(tbl, IF SendOk(Str(FirstRow(rows)), send_fails)
                           THEN [R("sent") EXCEPT !.partner_id = FirstRow(rows)]
                           ELSE R("send_failed"))
                : send_fails \in BOOLEAN}

\* handle_an_command: partner_id of the result is the user the Accept/Decline
\* buttons were sent to (status "sent"); the table is never written.
handle_an_command(tbl, user_id, message_text) ==
    LET anony_name == MatchAN(message_text)
        rows == RowsWithAnonyName(tbl, anony_name)
        R(st) == Result("handle_an_command", user_id, st)
    IN  IF anony_name = <<>> THEN {Outcome(tbl, R("invalid_format"))}
        ELSE IF rows = {} THEN {Outcome(tbl, R("not_exist"))}
        ELSE IF FirstRow(rows) = user_id THEN {Outcome(tbl, R("self"))}
        ELSE IF ~tbl[user_id].present THEN {Outcome(tbl, R("profile_not_found"))}
        ELSE {Outcome(tbl, IF SendOk(Str(FirstRow(rows)), send_fails)
                           THEN [R("sent") EXCEPT !.partner_id = FirstRow(rows)]
                           ELSE R("send_failed"))
                : send_fails \in BOOLEAN}

BilateralStatuses == {"CONNECTED", "PRIVATE", "RANDOM"}

\* responder_data[0] in ['CONNECTED', 'PRIVATE', 'RANDOM'] and responder_data[1]
HasLivePeer(row) ==
    row.present /\ row.STATUS \in BilateralStatuses /\ Truthy(row.PEER_ID)

\* One "disconnect the current peer" block: the UPDATE follows the message
\* to the peer inside the same try, so it is skipped when the message raises.
DisconnectOldPeer(tbl, row, notify_fails) ==
    IF HasLivePeer(row) /\ SendOk(row.PEER_ID, notify_fails)
    THEN ClosePeer(tbl, row.PEER_ID)
    ELSE tbl

\* The two UPDATEs that connect requester and responder.
ConnectBoth(tbl, responder_id, requester_id) ==
    LET t1 == UpdateWhereUserId(tbl, Str(requester_id),
                  [STATUS |-> "CONNECTED",
                                       PEER_ID |-> Str(responder_id)])
    IN  UpdateWhereUserId(t1, Str(responder_id),
                  [STATUS |-> "CONNECTED",
                                       PEER_ID |-> Str(requester_id)])

\* The table handle_an_connection_response commits on "accept"; both rows are
\* read before either old peer is touched.
AcceptTable(tbl, responder_id, requester_id, fails1, fails2) ==
    LET responder_data == tbl[responder_id]
        requester_data == tbl[requester_id]
        t1 == DisconnectOldPeer(tbl, responder_data, fails1)
        t2 == DisconnectOldPeer(t1, requester_data, fails2)
    IN  ConnectBoth(t2, responder_id, requester_id)

handle_an_connection_response(tbl, responder_id, requester_id, action) ==
    IF action = "decline"
    THEN {Outcome(tbl, [Result("handle_an_connection_response", responder_id, "declined")
                          EXCEPT !.partner_id = requester_id])}
    ELSE {Outcome(AcceptTable(tbl, responder_id, requester_id, fails1, fails2),
                  [Result("handle_an_connection_response", responder_id, "connected")
                      EXCEPT !.partner_id = requester_id])
            : fails1 \in BOOLEAN, fails2 \in BOOLEAN}

(***************************************************************************)
(* Broadcasting (create_broadcasting.py, process_broadcasting.py).         *)
(***************************************************************************)
PrefixBCST == <<"/", "B", "C", "S", "T">>

\* Outcomes of generate_random_alphanumeric(n).upper(), one representative each.
RandomPart1 == { <<"A","B">> }
RandomPart2 == { <<"X","Y","Z">> }
RandomPart3 == { <<"Q","R","S","T">> }

\* The second random part, with an outcome that has a digit in it.
PaddingPart2 == RandomPart2 \cup { <<"X","7","Z">> }

create_broadcasting_channel_id(user_id, anony_name, r1, r2, r3) ==
    PrefixBCST \o r1 \o Str(user_id) \o r2 \o anony_name \o r3

RECURSIVE LStrip(_)
LStrip(text) == IF text # <<>> /\ Head(text) = " " THEN LStrip(Tail(text)) ELSE text

RECURSIVE RStrip(_)
RStrip(text) ==
    IF text # <<>> /\ text[Len(text)] = " "
    THEN RStrip(SubSeq(text, 1, Len(text) - 1)) ELSE text

Strip(text) == RStrip(LStrip(text))

validate_listener_channel_id(channel_id) ==
    channel_id # <<>> /\ StartsWith(Strip(channel_id), PrefixBCST)

Digits == {"0","1","2","3","4","5","6","7","8","9"}

RECURSIVE DropWhile(_, _)
DropWhile(text, cs) ==
    IF text = <<>> \/ Head(text) \notin cs THEN text
    ELSE DropWhile(Tail(text), cs)

AllChars == WordChars \cup {"/", ":", " "}

\* The first run of digits in text, <<>> when it has none.
FirstDigitRun(text) == TakeWhile(DropWhile(text, AllChars \ Digits), Digits)

\* Positions where r'/BCST:.{5}(\d+)' matches channel_id.
RegexMatches(channel_id) ==
    {i \in 1..Len(channel_id) :
        /\ i + 11 <= Len(channel_id)
        /\ SubSeq(channel_id, i, i + 5) = PrefixBCST \o <<":">>
        /\ channel_id[i + 11] \in Digits}

\* extract_broadcaster_id; <<>> stands for None.
extract_broadcaster_id(channel_id) ==
    IF ~StartsWith(channel_id, PrefixBCST) THEN <<>>
    ELSE IF RegexMatches(channel_id) # {}
    THEN LET i == CHOOSE j \in RegexMatches(channel_id) :
                      \A k \in RegexMatches(channel_id) : j <= k
         IN  TakeWhile(SubSeq(channel_id, i + 11, Len(channel_id)), Digits)
    ELSE IF Len(channel_id) > 11
    THEN FirstDigitRun(SubSeq(channel_id, 12, Len(channel_id)))
    ELSE <<>>

\* hashlib.md5(hash_input.encode()).hexdigest()[:6], tabulated for the hash
\* inputs that the channel ids of this model give.
Md5Hex6(hash_input) ==
    CASE
      hash_input = <<"1">>
          -> <<"c","4","c","a","4","2">>
      []
      hash_input = <<"7">>
          -> <<"8","f","1","4","e","4">>
      []
      hash_input = <<"0">>
          -> <<"c","f","c","d","2","0">>
      []
      hash_input = <<"/","B","C","S","T","A","B","1","0","0","X","Y","Z","S","e","c","r","e","t","Q","R","S","T","Q","R","S","T">>
          -> <<"a","5","3","0","4","c">>
      []
      hash_input = <<"/","B","C","S","T","A","B","2","0","0","X","Y","Z","S","e","c","r","e","t","Q","R","S","T","Q","R","S","T">>
          -> <<"b","5","f","e","9","1">>
      []
      hash_input = <<"/","B","C","S","T","A","B","3","0","0","X","Y","Z","S","e","c","r","e","t","Q","R","S","T","Q","R","S","T">>
          -> <<"3","5","8","5","0","8">>
      []
      hash_input = <<"/","B","C","S","T","A","B","4","0","0","X","Y","Z","S","e","c","r","e","t","Q","R","S","T","Q","R","S","T">>
          -> <<"0","0","c","3","7","a">>
      []
      hash_input = <<"/","B","C","S","T","A","B","5","0","0","X","Y","Z","S","e","c","r","e","t","Q","R","S","T","Q","R","S","T">>
          -> <<"1","6","a","4","d","5">>
      []
      hash_input = <<"/","B","C","S","T","A","B","6","0","0","X","Y","Z","S","e","c","r","e","t","Q","R","S","T","Q","R","S","T">>
          -> <<"1","0","5","f","e","4">>
      []
      hash_input = <<"/","B","C","S","T">>
          -> <<"2","4","9","b","7","2">>

\* convert_to_fixed_code: the six hash characters are hexadecimal, hence
\* alphanumeric, and are copied as they are.
convert_to_fixed_code(channel_id) ==
    LET broadcaster_id == extract_broadcaster_id(channel_id)
        hash_input == IF broadcaster_id = <<>> THEN channel_id ELSE broadcaster_id
    IN  Md5Hex6(hash_input)

\* What a listener may type: the ids a broadcaster may be given, and a text
\* that is no channel id.
ChannelTexts ==
    {create_broadcasting_channel_id(u, n, r1, r2, r3) :
        u \in Users(NumUsers), n \in AnonyNames, r1 \in RandomPart1,
        r2 \in RandomPart2, r3 \in RandomPart3}
    \cup { <<"h","e","l","l","o">> }

process_broadcasting_channel_id(tbl, user_id, text) ==
    LET channel_id == Strip(text)
        R(st) == Result("process_broadcasting_channel_id", user_id, st)
    IN  IF ~validate_listener_channel_id(channel_id)
        THEN Outcome(tbl, R("invalid"))
        ELSE Outcome(UpdateWhereUserId(tbl, Str(user_id),
                         [PEER_ID |-> convert_to_fixed_code(channel_id),
                          STATUS |-> "LISTENER"]),
                     R("listener"))

\* Becoming a broadcaster: the channel id and its short code are computed by
\* create_broadcasting.py; the write of STATUS and PEER_ID is made by the
\* bot's callback handler.
issue_broadcast_channel(tbl, user_id) ==
    IF ~tbl[user_id].present
    THEN {Outcome(tbl, Result("issue_broadcast_channel", user_id, "error"))}
    ELSE {Outcome(UpdateWhereUserId(tbl, Str(user_id),
                      [PEER_ID |-> convert_to_fixed_code(
                                       create_broadcasting_channel_id(
                                           user_id, tbl[user_id].ANONY_NAME, r1, r2, r3)),
                       STATUS |-> "BROADCASTER"]),
                  Result("issue_broadcast_channel", user_id, "broadcaster"))
            : r1 \in RandomPart1, r2 \in RandomPart2, r3 \in RandomPart3}

(***************************************************************************)
(* Message routing (message_sender.py).                                    *)
(***************************************************************************)
MessagingStatuses == {"CONNECTED", "AI", "PRIVATE", "RANDOM", "BROADCASTER", "LISTENER"}

\* What get_peer_info returns: found = FALSE stands for None.
NoPeerInfo == [found |-> FALSE, status |-> "", peer_id |-> NULL, listeners |-> {}]

\* SELECT USER_ID FROM users WHERE PEER_ID = ? AND STATUS = 'LISTENER' AND
\* USER_ID != ? ; a NULL PEER_ID equals nothing.
ListenersOf(tbl, peer_id, user_id) ==
    {v \in UserIds \ {user_id} :
        /\ tbl[v].present /\ tbl[v].STATUS = "LISTENER"
        /\ peer_id # NULL /\ tbl[v].PEER_ID = peer_id}

\* Faulty variant of get_peer_info: the status of the sender is not tested.
get_peer_info_any_status(tbl, user_id) ==
    IF ~tbl[user_id].present THEN NoPeerInfo
    ELSE [NoPeerInfo EXCEPT !.found = TRUE, !.status = tbl[user_id].STATUS,
                            !.peer_id = tbl[user_id].PEER_ID]

\* Faulty variant of get_peer_info: a broadcaster's listeners are taken by
\* status alone.
get_peer_info_all_listeners(tbl, user_id) ==
    LET status == tbl[user_id].STATUS
        peer_id == tbl[user_id].PEER_ID
    IN  IF ~tbl[user_id].present \/ status \notin MessagingStatuses THEN NoPeerInfo
        ELSE IF status = "BROADCASTER"
        THEN [NoPeerInfo EXCEPT !.found = TRUE, !.status = status, !.peer_id = peer_id,
                                !.listeners = {v \in UserIds \ {user_id} :
                                                  tbl[v].present /\ tbl[v].STATUS = "LISTENER"}]
        ELSE IF status # "LISTENER" /\ ~Truthy(peer_id) THEN NoPeerInfo
        ELSE [NoPeerInfo EXCEPT !.found = TRUE, !.status = status, !.peer_id = peer_id]

get_peer_info(tbl, user_id) ==
    LET status == tbl[user_id].STATUS
        peer_id == tbl[user_id].PEER_ID
    IN  IF ~tbl[user_id].present THEN NoPeerInfo
        ELSE IF status \notin MessagingStatuses THEN NoPeerInfo
        ELSE IF status = "LISTENER"
        THEN [NoPeerInfo EXCEPT !.found = TRUE, !.status = status, !.peer_id = peer_id]
        ELSE IF status = "BROADCASTER"
        THEN [NoPeerInfo EXCEPT !.found = TRUE, !.status = status, !.peer_id = peer_id,
                                !.listeners = ListenersOf(tbl, peer_id, user_id)]
        ELSE IF ~Truthy(peer_id) THEN NoPeerInfo
        ELSE [NoPeerInfo EXCEPT !.found = TRUE, !.status = status, !.peer_id = peer_id]

\* What handle_message did with a text message: the value it returned, the
\* users it called bot.send_message for, and those whose message went out.
Routed(handled, sent_to, delivered) ==
    [handled |-> handled, sent_to |-> sent_to, delivered |-> delivered]

\* Faulty variant of handle_message: a send to a listener that raises ends
\* the broadcaster's loop, and the message counts as handled only when every
\* send went out.
handle_message_abort_on_failure(tbl, user_id) ==
    LET peer_info == get_peer_info(tbl, user_id)
        peer == {v \in UserIds : UserIdText[v] = peer_info.peer_id}
    IN  IF ~peer_info.found THEN {Routed(FALSE, {}, {})}
        ELSE IF peer_info.status = "LISTENER" THEN {Routed(TRUE, {}, {})}
        ELSE IF peer_info.status = "BROADCASTER"
        THEN {Routed(pr[2] = {} /\ pr[1] # {}, pr[1] \cup pr[2], pr[1]) :
                 pr \in {q \in (SUBSET peer_info.listeners)
                                  \X (SUBSET peer_info.listeners) :
                            /\ q[1] \cap q[2] = {}
                            /\ Cardinality(q[2]) <= 1
                            /\ q[2] = {} => q[1] = peer_info.listeners}}
        ELSE {Routed(ok # {}, peer, ok) : ok \in SUBSET peer}

\* handle_message for a text message: one outcome per set of sends that
\* raise.  A send to a chat that does not exist raises.
handle_message(tbl, user_id) ==
    LET peer_info == get_peer_info(tbl, user_id)
        peer == {v \in UserIds : UserIdText[v] = peer_info.peer_id}
    IN  IF ~peer_info.found THEN {Routed(FALSE, {}, {})}
        ELSE IF peer_info.status = "LISTENER" THEN {Routed(TRUE, {}, {})}
        ELSE IF peer_info.status = "BROADCASTER"
        THEN {Routed(ok # {}, peer_info.listeners, ok) : ok \in SUBSET peer_info.listeners}
        ELSE {Routed(ok # {}, peer, ok) : ok \in SUBSET peer}

(***************************************************************************)
(* Notices of the broadcasting handlers (controls_anonybot.py,             *)
(* process_broadcasting.py): the messages sent to other users besides the  *)
(* writes to the table.                                                    *)
(***************************************************************************)
\* SELECT USER_ID FROM users WHERE PEER_ID = ? AND STATUS = 'BROADCASTER'
BroadcastersOf(tbl, peer_id) ==
    {v \in UserIds :
        /\ tbl[v].present /\ tbl[v].STATUS = "BROADCASTER"
        /\ peer_id # NULL /\ tbl[v].PEER_ID = peer_id}

\* SELECT USER_ID FROM users WHERE PEER_ID = ? AND STATUS = 'LISTENER'
ListenerRows(tbl, peer_id) ==
    {v \in UserIds :
        /\ tbl[v].present /\ tbl[v].STATUS = "LISTENER"
        /\ peer_id # NULL /\ tbl[v].PEER_ID = peer_id}

\* The notices of one handler run: the users bot.send_message was called
\* for, the listener count written in the text (0 when the text has none),
\* and the users whose notice went out.
Notice(sent_to, count, delivered) ==
    [sent_to |-> sent_to, count |-> count, delivered |-> delivered]

\* Faulty variant of the stop notices: the first failed send to a listener
\* ends the loop.
stop_notices_until_failure(tbl, user_id) ==
    LET peer_id == tbl[user_id].PEER_ID
        status  == tbl[user_id].STATUS
    IN  IF ~tbl[user_id].present \/ status = "CLOSED" \/ ~Truthy(peer_id)
        THEN {Notice({}, 0, {})}
        ELSE IF status = "BROADCASTER"
        THEN {Notice(ok \cup failed, 0, ok) :
                 <<ok, failed>> \in
                     {pr \in (SUBSET ListenerRows(tbl, peer_id))
                                \X (SUBSET ListenerRows(tbl, peer_id)) :
                         /\ pr[1] \cap pr[2] = {}
                         /\ Cardinality(pr[2]) <= 1
                         /\ pr[2] = {} => pr[1] = ListenerRows(tbl, peer_id)}}
        ELSE IF status = "LISTENER" /\ BroadcastersOf(tbl, peer_id) # {}
        THEN LET broadcaster_id == FirstRow(BroadcastersOf(tbl, peer_id))
                 remaining_listeners == Cardinality(ListenersOf(tbl, peer_id, user_id))
             IN  {Notice({broadcaster_id}, remaining_listeners, ok) :
                     ok \in SUBSET {broadcaster_id}}
        ELSE {Notice({}, 0, {})}

\* Faulty variant of the stop notices: the leaving listener is counted among
\* those that remain.
stop_notices_counting_leaver(tbl, user_id) ==
    LET peer_id == tbl[user_id].PEER_ID
        status  == tbl[user_id].STATUS
    IN  IF ~tbl[user_id].present \/ status = "CLOSED" \/ ~Truthy(peer_id)
        THEN {Notice({}, 0, {})}
        ELSE IF status = "BROADCASTER"
        THEN {Notice(ListenerRows(tbl, peer_id), 0, ok) :
                 ok \in SUBSET ListenerRows(tbl, peer_id)}
        ELSE IF status = "LISTENER" /\ BroadcastersOf(tbl, peer_id) # {}
        THEN LET broadcaster_id == FirstRow(BroadcastersOf(tbl, peer_id))
                 remaining_listeners == Cardinality(ListenerRows(tbl, peer_id))
             IN  {Notice({broadcaster_id}, remaining_listeners, ok) :
                     ok \in SUBSET {broadcaster_id}}
        ELSE {Notice({}, 0, {})}

\* The notices handle_stop_button sends before it writes: a broadcaster's
\* to each of its listeners, each send in its own try; a listener's to the
\* broadcaster of its code, with the number of listeners that remain.  One
\* outcome per set of sends that raise.
stop_notices(tbl, user_id) ==
    LET peer_id == tbl[user_id].PEER_ID
        status  == tbl[user_id].STATUS
    IN  IF ~tbl[user_id].present \/ status = "CLOSED" \/ ~Truthy(peer_id)
        THEN {Notice({}, 0, {})}
        ELSE IF status = "BROADCASTER"
        THEN {Notice(ListenerRows(tbl, peer_id), 0, ok) :
                 ok \in SUBSET ListenerRows(tbl, peer_id)}
        ELSE IF status = "LISTENER" /\ BroadcastersOf(tbl, peer_id) # {}
        THEN LET broadcaster_id == FirstRow(BroadcastersOf(tbl, peer_id))
                 remaining_listeners == Cardinality(ListenersOf(tbl, peer_id, user_id))
             IN  {Notice({broadcaster_id}, remaining_listeners, ok) :
                     ok \in SUBSET {broadcaster_id}}
        ELSE {Notice({}, 0, {})}

\* Faulty variant of the join notice: the listeners are counted before the
\* joiner's row is written.
join_notices_count_before(tbl, user_id, text) ==
    LET channel_id == Strip(text)
        fixed_code == convert_to_fixed_code(channel_id)
    IN  IF ~validate_listener_channel_id(channel_id) THEN {Notice({}, 0, {})}
        ELSE IF BroadcastersOf(tbl, fixed_code) = {} THEN {Notice({}, 0, {})}
        ELSE LET broadcaster_id == FirstRow(BroadcastersOf(tbl, fixed_code))
                 listener_count == Cardinality(ListenerRows(tbl, fixed_code))
             IN  {Notice({broadcaster_id}, listener_count, ok) :
                     ok \in SUBSET {broadcaster_id}}

\* The notice process_broadcasting_channel_id sends: the broadcaster of the
\* code is looked up before the joiner's row is written, the listeners are
\* counted after it.
join_notices(tbl, user_id, text) ==
    LET channel_id == Strip(text)
        fixed_code == convert_to_fixed_code(channel_id)
        after == process_broadcasting_channel_id(tbl, user_id, text).tbl
    IN  IF ~validate_listener_channel_id(channel_id) THEN {Notice({}, 0, {})}
        ELSE IF BroadcastersOf(tbl, fixed_code) = {} THEN {Notice({}, 0, {})}
        ELSE LET broadcaster_id == FirstRow(BroadcastersOf(tbl, fixed_code))
                 listener_count == Cardinality(ListenerRows(after, fixed_code))
             IN  {Notice({broadcaster_id}, listener_count, ok) :
                     ok \in SUBSET {broadcaster_id}}

(***************************************************************************)
(* The handlers as atomic steps: one inbound event handled at a time.      *)
(***************************************************************************)
Register(u) ==
    \E anony_name \in AnonyNames :
        /\ users' = add_user_to_users_table(users, u, anony_name)
        /\ UNCHANGED <<otp_tasks, an_requests, confirmations, call_vars>>

RequestRandomMatch(u) ==
    \E o \in find_random_partner(users, u) :
        /\ users' = o.tbl
        /\ UNCHANGED <<otp_tasks, an_requests, confirmations, call_vars>>

\* A fresh issuance starts the cleanup task (start_otp_cleanup_task).
IssuePrivateLink(u) ==
    \E o \in check_user_status(users, u) :
        /\ users' = o.tbl
        /\ otp_tasks' = IF o.ret.status = "success" THEN otp_tasks \cup {u} ELSE otp_tasks
        /\ UNCHANGED <<an_requests, confirmations, call_vars>>

OtpExpiry(u) ==
    /\ u \in otp_tasks
    /\ otp_tasks' = otp_tasks \ {u}
    /\ users' = clean_otp(users, u).tbl
    /\ UNCHANGED <<an_requests, confirmations, call_vars>>

Disconnect(u) ==
    \E o \in handle_stop_button(users, u) :
        /\ \E n \in stop_notices(users, u) : n.delivered \subseteq n.sent_to
        /\ users' = o.tbl
        /\ UNCHANGED <<otp_tasks, an_requests, confirmations, call_vars>>

ResumeFromClosed(u) ==
    /\ users' = handle_forward_button(users, u).tbl
    /\ UNCHANGED <<otp_tasks, an_requests, confirmations, call_vars>>

\* What a user may type after /AN: a name the generator can give.
ANTexts == {PrefixAN \o n : n \in AnonyNames}

RequestAnonymousNumberConnect(u) ==
    \E message_text \in ANTexts :
      \E o \in handle_an_command(users, u, message_text) :
        /\ o.ret.status = "sent" =>
               \/ <<u, o.ret.partner_id>> \in an_requests
               \/ Cardinality(an_requests) < MaxRequests
        /\ users' = o.tbl
        /\ an_requests' = IF o.ret.status = "sent"
                          THEN an_requests \cup {<<u, o.ret.partner_id>>}
                          ELSE an_requests
        /\ UNCHANGED <<otp_tasks, confirmations, call_vars>>

\* The press of a delivered Accept or Decline button by its addressee u; the
\* handler edits the message, which takes the buttons away.
RespondAnonymousNumberConnect(u) ==
    \E req \in an_requests, action \in {"accept", "decline"} :
        /\ req[2] = u
        /\ \E o \in handle_an_connection_response(users, u, req[1], action) :
            users' = o.tbl
        /\ an_requests' = an_requests \ {req}
        /\ UNCHANGED <<otp_tasks, confirmations, call_vars>>

JoinBroadcast(u) ==
    \E text \in ChannelTexts :
        /\ \E n \in join_notices(users, u, text) : n.delivered \subseteq n.sent_to
        /\ users' = process_broadcasting_channel_id(users, u, text).tbl
        /\ UNCHANGED <<otp_tasks, an_requests, confirmations, call_vars>>

IssueBroadcastChannel(u) ==
    \E o \in issue_broadcast_channel(users, u) :
        /\ users' = o.tbl
        /\ UNCHANGED <<otp_tasks, an_requests, confirmations, call_vars>>

\* A text message of user u is handled; the table is only read.
Route(u) ==
    /\ \E o \in handle_message(users, u) : o.delivered \subseteq o.sent_to
    /\ UNCHANGED vars

\* Every operation of the session engine, events handled one at a time.
Next ==
    \E u \in Users(NumUsers) :
        \/ Register(u)
        \/ RequestRandomMatch(u)
        \/ IssuePrivateLink(u)
        \/ OtpExpiry(u)
        \/ Disconnect(u)
        \/ ResumeFromClosed(u)
        \/ RequestAnonymousNumberConnect(u)
        \/ RespondAnonymousNumberConnect(u)
        \/ JoinBroadcast(u)
        \/ IssueBroadcastChannel(u)
        \/ Route(u)

Spec == Init /\ [][Next]_vars

\* The random-chat operations among more users.
NextRandom ==
    \E u \in Users(RandomUsers) :
        \/ Register(u)
        \/ RequestRandomMatch(u)
        \/ Disconnect(u)
        \/ ResumeFromClosed(u)

SpecRandom == Init /\ [][NextRandom]_vars

\* Random pairing followed by anonymous-number connection.
NextAccept ==
    \E u \in Users(AcceptUsers) :
        \/ Register(u)
        \/ RequestRandomMatch(u)
        \/ RequestAnonymousNumberConnect(u)
        \/ RespondAnonymousNumberConnect(u)

SpecAccept == Init /\ [][NextAccept]_vars

\* The users of the private-link specification.
LinkUsers == Users(NumShortLinkUsers) \cup LongUsers(NumLongUsers)

\* An id of five digits that is no user's.
UnknownUserId == 10000 * (NumLongUsers + 1)

\* The ids a link may name.
LinkIds == LinkUsers \cup {UnknownUserId}

\* What a claimant may send: links as the generator makes them for these
\* ids, and a text too short to be one.
LinkTexts ==
    {generate_connection_string(otp, v, six_digit, five_digit) :
        otp \in OtpValues, v \in LinkIds, six_digit \in SixDigit, five_digit \in FiveDigit}
    \cup { Prefix92 \o <<"1", "2", "3">> }

\* A claimant sends a link; on "confirmation_needed" the confirmation request
\* is delivered to the issuer.
VerifyPrivateLink(u) ==
    \E link_text \in LinkTexts :
        LET o == verify_private_link(users, link_text, u)
            asked == {<<u, v>> : v \in RowsWithUserId(users, o.ret.peer_id)}
        IN  /\ o.ret.status = "confirmation_needed" =>
                   \/ asked \subseteq confirmations
                   \/ Cardinality(confirmations) < MaxConfirmations
            /\ users' = o.tbl
            /\ confirmations' = IF o.ret.status = "confirmation_needed"
                                THEN confirmations \cup asked
                                ELSE confirmations
            /\ UNCHANGED <<otp_tasks, an_requests, call_vars>>

\* The issuer u answers a delivered confirmation request.
ConfirmPrivateLink(u) ==
    \E c \in confirmations :
        /\ c[2] = u
        /\ users' = confirm_private_link(users, u, c[1]).tbl
        /\ confirmations' = confirmations \ {c}
        /\ UNCHANGED <<otp_tasks, an_requests, call_vars>>

\* The private-link operations, with what ends a session and what lets an
\* OTP expire.
NextLink ==
    \E u \in LinkUsers :
        \/ Register(u)
        \/ IssuePrivateLink(u)
        \/ OtpExpiry(u)
        \/ VerifyPrivateLink(u)
        \/ ConfirmPrivateLink(u)
        \/ Disconnect(u)
        \/ JoinBroadcast(u)

SpecLink == Init /\ [][NextLink]_vars

(***************************************************************************)
(* find_random_partner calls of different users interleaved.  Each call    *)
(* has its own connection: its SELECTs run outside any transaction, and    *)
(* its UPDATEs are one transaction, visible to the others at its commit.   *)
(***************************************************************************)
\* Lines 53-69: the requester's row is read and checked.
FrpReadStatus(u) ==
    /\ pc[u] = "idle"
    /\ IF users[u].present /\ MayRequestRandom(users[u].STATUS)
       THEN /\ pc' = [pc EXCEPT ![u] = "scan"]
            /\ user_status' = [user_status EXCEPT ![u] = users[u].STATUS]
            /\ returned' = [returned EXCEPT ![u] = NoResult]
       ELSE /\ returned' = [returned EXCEPT
                              ![u] = Result("find_random_partner", u, "error")]
            /\ UNCHANGED <<pc, user_status>>
    /\ UNCHANGED <<users, otp_tasks, an_requests, partner, confirmations, stop_call, accept_call>>

\* Lines 71-93: the candidates are fetched; without any the call returns
\* "waiting" (after setting OPEN a requester that was not), else one is chosen.
FrpScan(u) ==
    /\ pc[u] = "scan"
    /\ IF available_users(users, u) = {}
       THEN /\ users' = (IF user_status[u] # "OPEN" THEN SetOpen(users, u) ELSE users)
            /\ pc' = [pc EXCEPT ![u] = "idle"]
            /\ returned' = [returned EXCEPT
                              ![u] = Result("find_random_partner", u, "waiting")]
            /\ user_status' = [user_status EXCEPT ![u] = ""]
            /\ UNCHANGED partner
       ELSE /\ \E partner_id \in available_users(users, u) :
                  partner' = [partner EXCEPT ![u] = partner_id]
            /\ pc' = [pc EXCEPT ![u] = "write"]
            /\ UNCHANGED <<users, returned, user_status>>
    /\ UNCHANGED <<otp_tasks, an_requests, confirmations, stop_call, accept_call>>

\* Lines 95-115: both rows are updated, the transaction commits, "success".
FrpWrite(u) ==
    /\ pc[u] = "write"
    /\ users' = PairRandom(users, u, partner[u])
    /\ pc' = [pc EXCEPT ![u] = "idle"]
    /\ returned' = [returned EXCEPT
                      ![u] = [Result("find_random_partner", u, "success")
                                EXCEPT !.partner_id = partner[u]]]
    /\ user_status' = [user_status EXCEPT ![u] = ""]
    /\ partner' = [partner EXCEPT ![u] = 0]
    /\ UNCHANGED <<otp_tasks, an_requests, confirmations, stop_call, accept_call>>

NextConc ==
    \E u \in Users(ConcUsers) :
        \/ Register(u)
        \/ FrpReadStatus(u)
        \/ FrpScan(u)
        \/ FrpWrite(u)

SpecConc == Init /\ [][NextConc]_vars

(***************************************************************************)
(* handle_stop_button and handle_an_connection_response interleaved.  Each *)
(* SELECT sees what is committed when it runs, and each commit is one      *)
(* step.  Messages are delivered here, so that what is seen is the effect  *)
(* of the interleaving alone.                                              *)
(***************************************************************************)
\* No stop or accept handler is between its first read and its last commit.
NoCallInProgress ==
    \A v \in UserIds : stop_call[v].pc = "idle" /\ accept_call[v].pc = "idle"

\* Users register, pairs are made by random matching and requests are sent
\* while no stop or accept is in progress: the handlers that race are these
\* two alone.
RaceRegister(u) == NoCallInProgress /\ Register(u)
RaceRandomMatch(u) == NoCallInProgress /\ RequestRandomMatch(u)
RaceRequestANConnect(u) == NoCallInProgress /\ RequestAnonymousNumberConnect(u)

\* Line 95: get_user_status; a CLOSED user is told so and the handler returns.
\* One stop runs at a time.
StopReadStatus(u) ==
    /\ \A v \in UserIds : stop_call[v].pc = "idle"
    /\ stop_call' = [stop_call EXCEPT
                       ![u].pc = IF get_user_status(users, u) = "CLOSED"
                                 THEN "idle" ELSE "row"]
    /\ UNCHANGED <<users, otp_tasks, an_requests, confirmations, frp_vars, accept_call>>

\* Lines 119-129: SELECT PEER_ID, STATUS of the user's own row.
StopReadRow(u) ==
    /\ stop_call[u].pc = "row"
    /\ stop_call' = [stop_call EXCEPT
                       ![u] = IF users[u].present
                              THEN [pc |-> "close", peer_id |-> users[u].PEER_ID,
                                    status |-> users[u].STATUS]
                              ELSE NoStopCall]
    /\ UNCHANGED <<users, otp_tasks, an_requests, confirmations, frp_vars, accept_call>>

\* Line 187: update_user_status(user_id, "CLOSED"), committed on its own.
StopClose(u) ==
    /\ stop_call[u].pc = "close"
    /\ users' = update_user_status(users, u, "CLOSED")
    /\ stop_call' = [stop_call EXCEPT
                       ![u].pc = IF stop_call[u].status # "BROADCASTER"
                                    /\ Truthy(stop_call[u].peer_id)
                                 THEN "peer" ELSE "own"]
    /\ UNCHANGED <<otp_tasks, an_requests, confirmations, frp_vars, accept_call>>

\* Lines 208-215: the peer read at line 119 is set CLOSED with no peer,
\* committed, and told.
StopPeer(u) ==
    /\ stop_call[u].pc = "peer"
    /\ users' = ClosePeer(users, stop_call[u].peer_id)
    /\ stop_call' = [stop_call EXCEPT ![u].pc = "own"]
    /\ UNCHANGED <<otp_tasks, an_requests, confirmations, frp_vars, accept_call>>

\* Lines 218-219: the user's own PEER_ID is cleared and committed.
StopOwn(u) ==
    /\ stop_call[u].pc = "own"
    /\ users' = ClearOwnPeer(users, u)
    /\ stop_call' = [stop_call EXCEPT ![u] = NoStopCall]
    /\ UNCHANGED <<otp_tasks, an_requests, confirmations, frp_vars, accept_call>>

\* Lines 324-356: the addressee u presses a delivered button; "decline" only
\* sends messages, "accept" reads the responder's row.  One accept runs at a
\* time.
AcceptReadResponder(u) ==
    \E req \in an_requests, action \in {"accept", "decline"} :
        /\ req[2] = u
        /\ \A v \in UserIds : accept_call[v].pc = "idle"
        /\ an_requests' = an_requests \ {req}
        /\ accept_call' = IF action = "decline" THEN accept_call
                          ELSE [accept_call EXCEPT
                                  ![u] = [pc |-> "requester", requester_id |-> req[1],
                                          responder_data |-> users[u],
                                          requester_data |-> NoRow]]
        /\ UNCHANGED <<users, otp_tasks, confirmations, frp_vars, stop_call>>

\* Lines 356-357: the requester's row is read.
AcceptReadRequester(u) ==
    /\ accept_call[u].pc = "requester"
    /\ accept_call' = [accept_call EXCEPT
                         ![u].pc = "write",
                         ![u].requester_data = users[accept_call[u].requester_id]]
    /\ UNCHANGED <<users, otp_tasks, an_requests, confirmations, frp_vars, stop_call>>

\* Lines 360-394: the peers read are closed, requester and responder are
\* connected, and all of it is committed at once.
AcceptWrite(u) ==
    /\ accept_call[u].pc = "write"
    /\ users' = ConnectBoth(
                    DisconnectOldPeer(
                        DisconnectOldPeer(users, accept_call[u].responder_data, FALSE),
                        accept_call[u].requester_data, FALSE),
                    u, accept_call[u].requester_id)
    /\ accept_call' = [accept_call EXCEPT ![u] = NoAcceptCall]
    /\ UNCHANGED <<otp_tasks, an_requests, confirmations, frp_vars, stop_call>>

NextRace ==
    \E u \in Users(RaceUsers) :
        \/ RaceRegister(u)
        \/ RaceRandomMatch(u)
        \/ RaceRequestANConnect(u)
        \/ StopReadStatus(u)
        \/ StopReadRow(u)
        \/ StopClose(u)
        \/ StopPeer(u)
        \/ StopOwn(u)
        \/ AcceptReadResponder(u)
        \/ AcceptReadRequester(u)
        \/ AcceptWrite(u)

SpecRace == Init /\ [][NextRace]_vars

(***************************************************************************)
(* Broadcasting and routing: users become broadcasters and listeners, end  *)
(* their sessions, and send messages.                                      *)
(***************************************************************************)
NextBroadcast ==
    \E u \in Users(BroadcastUsers) :
        \/ Register(u)
        \/ IssueBroadcastChannel(u)
        \/ JoinBroadcast(u)
        \/ Disconnect(u)
        \/ Route(u)

SpecBroadcast == Init /\ [][NextBroadcast]_vars

(***************************************************************************)
(* Properties of the session engine.                                       *)
(***************************************************************************)
\* The statuses of a two-sided connection.
PairedStatuses == {"RANDOM", "CONNECTED", "PRIVATE"}

\* Row a of tbl names user b as its peer.
PointsAt(tbl, a, b) == tbl[a].present /\ tbl[a].PEER_ID = UserIdText[b]

\* a and b are connected to each other.
Bilateral(tbl, a, b) ==
    /\ a # b
    /\ PointsAt(tbl, a, b) /\ tbl[a].STATUS \in PairedStatuses
    /\ PointsAt(tbl, b, a) /\ tbl[b].STATUS \in PairedStatuses

\* Row u of tbl is CLOSED with no peer ('' or NULL).
ClosedNoPeer(tbl, u) == tbl[u].STATUS = "CLOSED" /\ ~Truthy(tbl[u].PEER_ID)

\* Rows outside set s are the same in t1 and t2.
SameOutside(t1, t2, s) == \A w \in UserIds \ s : t1[w] = t2[w]

\* C1: symmetric pairing.  In every state reached by completed operations, if
\* A's status is RANDOM, CONNECTED or PRIVATE and A's peer_id names B, then
\* B's peer_id names A and B's status is RANDOM, CONNECTED or PRIVATE.
C1_SymmetricPairing ==
    \A a, b \in UserIds :
        (users[a].present /\ users[a].STATUS \in PairedStatuses /\ PointsAt(users, a, b))
            => (PointsAt(users, b, a) /\ users[b].STATUS \in PairedStatuses)

\* C2: find_random_partner calls of different requesters, interleaved, never
\* both return "success" with the same partner_id, and once no call is in
\* progress every user in status RANDOM names a peer that names it back.
C2_NoDoublePairing ==
    /\ \A r1, r2 \in UserIds :
          (r1 # r2 /\ returned[r1].status = "success" /\ returned[r2].status = "success")
              => returned[r1].partner_id # returned[r2].partner_id
    /\ (\A u \in UserIds : pc[u] = "idle")
          => \A u \in UserIds :
                (users[u].present /\ users[u].STATUS = "RANDOM")
                    => \E v \in UserIds : PointsAt(users, u, v) /\ PointsAt(users, v, u)

\* C3: Disconnect clears both sides.  If A and B are connected to each other,
\* then whatever handle_stop_button by A leaves, A and B are both CLOSED with
\* an empty peer_id.
C3_DisconnectClearsBoth ==
    \A a, b \in UserIds :
        Bilateral(users, a, b)
            => \A o \in handle_stop_button(users, a) :
                  ClosedNoPeer(o.tbl, a) /\ ClosedNoPeer(o.tbl, b)

\* C4: forced reconnection cleans up the prior peers.  With A connected to B,
\* C connected to D, and C's request delivered to A, A's "accept" leaves B and
\* D CLOSED with an empty peer_id and A and C CONNECTED to each other.
C4_AcceptClosesOldPeers ==
    \A a, b, c, d \in UserIds :
        (/\ Cardinality({a, b, c, d}) = 4
         /\ Bilateral(users, a, b) /\ Bilateral(users, c, d)
         /\ <<c, a>> \in an_requests)
            => \A o \in handle_an_connection_response(users, a, c, "accept") :
                  /\ ClosedNoPeer(o.tbl, b) /\ ClosedNoPeer(o.tbl, d)
                  /\ o.tbl[a].STATUS = "CONNECTED" /\ PointsAt(o.tbl, a, c)
                  /\ o.tbl[c].STATUS = "CONNECTED" /\ PointsAt(o.tbl, c, a)

\* C5: random match, success case.  When the requester is OPEN or IDLE and
\* some other user is OPEN, find_random_partner returns "success" with a
\* partner that is not the requester and was OPEN; it leaves requester and
\* partner RANDOM with each other as peer and every other row as it was.
C5_RandomMatchSuccess ==
    \A u \in UserIds :
        (/\ users[u].present /\ users[u].STATUS \in {"OPEN", "IDLE"}
         /\ \E v \in UserIds \ {u} : users[v].present /\ users[v].STATUS = "OPEN")
            => \A o \in find_random_partner(users, u) :
                  /\ o.ret.status = "success"
                  /\ o.ret.partner_id \in UserIds \ {u}
                  /\ users[o.ret.partner_id].present
                  /\ users[o.ret.partner_id].STATUS = "OPEN"
                  /\ o.tbl[u].STATUS = "RANDOM"
                  /\ PointsAt(o.tbl, u, o.ret.partner_id)
                  /\ o.tbl[o.ret.partner_id].STATUS = "RANDOM"
                  /\ PointsAt(o.tbl, o.ret.partner_id, u)
                  /\ SameOutside(o.tbl, users, {u, o.ret.partner_id})

\* A state where the success case happens with a bystander: three users are
\* registered, two of them OPEN, and the call pairs these two.
C5_Witness ==
    \E u, v, w \in UserIds :
        /\ Cardinality({u, v, w}) = 3
        /\ users[u].present /\ users[u].STATUS = "OPEN"
        /\ users[v].present /\ users[v].STATUS = "OPEN"
        /\ users[w].present
        /\ \E o \in find_random_partner(users, u) :
              /\ o.ret.status = "success" /\ o.ret.partner_id = v
              /\ Bilateral(o.tbl, u, v)

C7_RandomMatchPrecondition ==
    \A u \in UserIds :
        (~users[u].present \/ users[u].STATUS \notin {"OPEN", "IDLE"})
            => \A o \in find_random_partner(users, u) :
                  o.ret.status = "error" /\ o.tbl = users

\* A state with a requester without a row and registered requesters in two
\* of the refused statuses, each refused.
C7_Witness ==
    \E u, v, w \in UserIds :
        /\ ~users[u].present
        /\ users[v].present /\ users[v].STATUS = "CLOSED"
        /\ users[w].present /\ users[w].STATUS \in {"PRIVATE", "LISTENER", "BROADCASTER"}
        /\ \A x \in {u, v, w} :
              \E o \in find_random_partner(users, x) : o.ret.status = "error"

\* C8: OTP idempotence.  Two check_user_status calls in succession for the
\* same user, the first of which returned a connection_string, return the
\* same connection_string.
C8_SameTokenTwice ==
    \A u \in UserIds :
        \A o1 \in check_user_status(users, u) :
            o1.ret.connection_string # EmptyText
                => \A o2 \in check_user_status(o1.tbl, u) :
                      o2.ret.connection_string = o1.ret.connection_string

\* C9: fresh issuance.  For a user with no OTP who is not PRIVATE with a peer,
\* whatever the status, check_user_status returns "success" and leaves the
\* user PRIVATE, with an empty peer_id and the OTP of the returned link stored.
C9_FreshIssuance ==
    \A u \in UserIds :
        (/\ users[u].present
         /\ ~Truthy(users[u].OTP)
         /\ ~(users[u].STATUS = "PRIVATE" /\ Truthy(users[u].PEER_ID)))
            => \A o \in check_user_status(users, u) :
                  /\ o.ret.status = "success"
                  /\ o.tbl[u].STATUS = "PRIVATE"
                  /\ ~Truthy(o.tbl[u].PEER_ID)
                  /\ o.tbl[u].OTP = otp_from_link(o.ret.connection_string)

\* C10: OTP and status.  In every reachable state a user with a non-empty
\* OTP has status PRIVATE.
C10_OtpOnlyWhenPrivate ==
    \A u \in UserIds :
        (users[u].present /\ Truthy(users[u].OTP)) => users[u].STATUS = "PRIVATE"

\* The links the generator can make for otp and issuer id v.
LinksFor(otp, v) ==
    {generate_connection_string(otp, v, six_digit, five_digit) :
        six_digit \in SixDigit, five_digit \in FiveDigit}

\* C11: connection-token round trip.  Every link that check_user_status
\* returns, for an issuer id of any number of digits, is accepted by the
\* parser of verify_private_link and parsed back to the stored OTP and the
\* issuer's id.
C11_TokenRoundTrip ==
    \A u \in UserIds :
        \A o \in check_user_status(users, u) :
            o.ret.connection_string # EmptyText
                => /\ \A c \in UserIds :
                          verify_private_link(o.tbl, o.ret.connection_string, c).ret.status
                              # "invalid_format"
                   /\ otp_from_link(o.ret.connection_string) = o.tbl[u].OTP
                   /\ peer_id_from_link(o.ret.connection_string) = Str(u)

\* C12: private-link scenario.  For an existing issuer with a stored OTP, a
\* link made from that OTP and the issuer's id, and a claimant other than the
\* issuer, verify_private_link returns "confirmation_needed" naming the issuer.
C12_ClaimNeedsConfirmation ==
    \A u \in UserIds, c \in UserIds :
        (users[u].present /\ Truthy(users[u].OTP) /\ c # u)
            => \A link_text \in LinksFor(users[u].OTP, u) :
                  LET ret == verify_private_link(users, link_text, c).ret
                  IN  ret.status = "confirmation_needed" /\ ret.peer_id = Str(u)

C14_SelfLinkRefused ==
    \A c \in UserIds, otp \in OtpValues :
        \A link_text \in LinksFor(otp, c) :
            verify_private_link(users, link_text, c).ret.status = "self"

\* C15: rejection of bad links.  For a claimant other than the issuer the link
\* names, verify_private_link returns peer-not-found when the issuer has no
\* row, the expired/incorrect error when the issuer's OTP is empty or is not
\* the link's, and "confirmation_needed" in neither case.
C15_BadLinkRejected ==
    \A c \in UserIds, v \in LinkIds, otp \in OtpValues :
        c # v
            => \A link_text \in LinksFor(otp, v) :
                  LET st == verify_private_link(users, link_text, c).ret.status
                      known == v \in UserIds /\ users[v].present
                  IN  /\ ~known => st = "peer_not_found"
                      /\ (known /\ (~Truthy(users[v].OTP) \/ users[v].OTP # otp))
                            => st = "otp_mismatch"

\* A claim of c on u's link that verifies now, and whose confirmation by u
\* pairs the two.
ClaimConsumed(c, u, link_text) ==
    /\ <<c, u>> \in confirmations
    /\ verify_private_link(users, link_text, c).ret.status = "confirmation_needed"
    /\ verify_private_link(users, link_text, c).ret.peer_id = Str(u)
    /\ confirm_private_link(users, u, c).ret.status = "connected"
    /\ Bilateral(confirm_private_link(users, u, c).tbl, u, c)

C17_RequestANReadOnly ==
    \A u \in UserIds, message_text \in ANTexts :
        users[u].present
            => \A o \in handle_an_command(users, u, message_text) :
                  LET rows == RowsWithAnonyName(users, MatchAN(message_text))
                  IN  /\ o.tbl = users
                      /\ rows = {} => o.ret.status = "not_exist"
                      /\ u \in rows => o.ret.status = "self"
                      /\ (rows # {} /\ u \notin rows)
                            => \/ o.ret.status = "send_failed"
                               \/ /\ o.ret.status = "sent"
                                  /\ o.ret.user_id = u
                                  /\ o.ret.partner_id \in rows

\* C20: a failed notification does not affect the transition of Disconnect.
\* For A bilaterally paired with B, what handle_stop_button commits when the
\* "partner has ended the connection" message raises is what it commits when
\* the message is sent: A and B CLOSED, both with an empty peer_id.
C20_StopDespiteFailedNotice ==
    \A a, b \in UserIds :
        Bilateral(users, a, b)
            => /\ ClosedNoPeer(StopTable(users, a, TRUE), a)
               /\ ClosedNoPeer(StopTable(users, a, TRUE), b)
               /\ StopTable(users, a, TRUE) = StopTable(users, a, FALSE)

\* C18: accept racing stop.  When handle_an_connection_response ("accept")
\* and handle_stop_button have run interleaved, read by read and commit by
\* commit, and none is in progress any more, no user in status RANDOM,
\* CONNECTED or PRIVATE names a peer whose peer_id does not name it back.
C18_RaceLeavesSymmetric ==
    NoCallInProgress
        => \A x, y \in UserIds :
              (users[x].STATUS \in PairedStatuses /\ PointsAt(users, x, y))
                  => PointsAt(users, y, x)

\* C19: multi-row transitions are atomic to observers.  After every commit of
\* a stop, a random match or an accept, not only after the last one, the
\* pairing is symmetric; in particular no committed table shows a user
\* CLOSED while another user in status RANDOM, CONNECTED or PRIVATE still
\* names it as peer.
C19_SymmetricAtEveryCommit ==
    \A x, y \in UserIds :
        /\ (users[x].STATUS \in PairedStatuses /\ PointsAt(users, x, y))
              => Bilateral(users, x, y)
        /\ ~(users[x].STATUS = "CLOSED"
              /\ users[y].STATUS \in PairedStatuses /\ PointsAt(users, y, x))

\* C21: old-peer cleanup on accept is mandatory and independent of the
\* notification.  When A accepts C's request, every old peer of A or of C
\* (named by a row in status CONNECTED, PRIVATE or RANDOM) ends CLOSED with an
\* empty peer_id, whether or not the message to that old peer, or to the
\* other party's old peer, could be sent.
C21_OldPeersAlwaysClosed ==
    \A a, c \in UserIds :
        <<c, a>> \in an_requests
            => \A o \in handle_an_connection_response(users, a, c, "accept") :
                  \A p \in {a, c}, q \in UserIds \ {a, c} :
                      (HasLivePeer(users[p]) /\ PointsAt(users, p, q))
                          => ClosedNoPeer(o.tbl, q)

\* The users in status LISTENER whose peer_id is the channel code x.
ListenersOn(tbl, x) ==
    {v \in UserIds : tbl[v].present /\ tbl[v].STATUS = "LISTENER" /\ tbl[v].PEER_ID = x}

\* C22: broadcast fan-out.  A message of a BROADCASTER with channel code X is
\* sent to exactly the users in status LISTENER whose peer_id is X: it goes
\* out for none but them, and for all of them when no send fails.
C22_BroadcastFanOut ==
    \A u \in UserIds :
        (users[u].present /\ users[u].STATUS = "BROADCASTER" /\ Truthy(users[u].PEER_ID))
            => /\ \A o \in handle_message(users, u) :
                      /\ o.sent_to = ListenersOn(users, users[u].PEER_ID)
                      /\ o.delivered \subseteq o.sent_to
                      /\ u \notin o.sent_to
               /\ \E o \in handle_message(users, u) :
                      o.delivered = ListenersOn(users, users[u].PEER_ID)

\* A broadcaster with a listener of its code and a listener of another code,
\* whose message goes out to the first.
C22_Witness ==
    \E u, v, w \in UserIds :
        /\ users[u].present /\ users[u].STATUS = "BROADCASTER" /\ Truthy(users[u].PEER_ID)
        /\ v \in ListenersOn(users, users[u].PEER_ID)
        /\ users[w].present /\ users[w].STATUS = "LISTENER"
        /\ users[w].PEER_ID # users[u].PEER_ID
        /\ \E o \in handle_message(users, u) : o.delivered = {v} /\ o.handled

\* The statuses of a user connected to one peer, as handle_message takes them.
OnePeerStatuses == {"CONNECTED", "AI", "PRIVATE", "RANDOM"}

C24_ForwardOnlyFromRandom ==
    \A u \in UserIds :
        LET o == handle_forward_button(users, u)
        IN  IF users[u].present /\ users[u].STATUS = "RANDOM"
            THEN /\ o.ret.status = "OPEN"
                 /\ o.tbl = [users EXCEPT ![u].STATUS = "OPEN"]
            ELSE /\ o.ret.status = "not_valid"
                 /\ o.tbl = users

\* A RANDOM user whom the button sets OPEN, beside a registered user in
\* another status for whom it is not valid.
C24_Witness ==
    \E u, v \in UserIds :
        /\ users[u].present /\ users[u].STATUS = "RANDOM"
        /\ handle_forward_button(users, u).tbl[u].STATUS = "OPEN"
        /\ users[v].present /\ users[v].STATUS = "CLOSED"
        /\ handle_forward_button(users, v).ret.status = "not_valid"

\* The channel ids create_broadcasting_channel_id can give user u with name n.
ChannelIdsOf(u, n) ==
    {create_broadcasting_channel_id(u, n, r1, r2, r3) :
        r1 \in RandomPart1, r2 \in PaddingPart2, r3 \in RandomPart3}

\* What convert_to_fixed_code hashes: the extracted id, or the whole channel
\* id when none is extracted.
HashInput(channel_id) ==
    IF extract_broadcaster_id(channel_id) = <<>> THEN channel_id
    ELSE extract_broadcaster_id(channel_id)

\* C25: the short broadcast code is a function of the issuer id only.  Any
\* two channel ids made for a registered user and its name, whatever their
\* random parts, are converted to the same code, and extract_broadcaster_id
\* gives back the user's id from each.
C25_CodeFromIssuerOnly ==
    \A u \in UserIds :
        users[u].present
            => \A c1 \in ChannelIdsOf(u, users[u].ANONY_NAME),
                  c2 \in ChannelIdsOf(u, users[u].ANONY_NAME) :
                    /\ convert_to_fixed_code(c1) = convert_to_fixed_code(c2)
                    /\ extract_broadcaster_id(c1) = Str(u)

\* C26: broadcast invariant.  No two rows in status BROADCASTER hold the same
\* channel code; in particular what convert_to_fixed_code extracts and hashes
\* differs for channel ids made for two different registered users.
C26_OneBroadcasterPerCode ==
    /\ \A u, v \in UserIds :
          (/\ u # v
           /\ users[u].present /\ users[u].STATUS = "BROADCASTER"
           /\ users[v].present /\ users[v].STATUS = "BROADCASTER")
              => users[u].PEER_ID # users[v].PEER_ID
    /\ \A u, v \in UserIds :
          (u # v /\ users[u].present /\ users[v].present)
              => \A c1 \in ChannelIdsOf(u, users[u].ANONY_NAME),
                    c2 \in ChannelIdsOf(v, users[v].ANONY_NAME) :
                      HashInput(c1) # HashInput(c2)

\* C27: anony_name uniqueness.  After any sequence of registrations, for
\* every outcome of the name generator, no two rows have the same ANONY_NAME.
C27_AnonyNameUnique ==
    \A u, v \in UserIds :
        (u # v /\ users[u].present /\ users[v].present)
            => users[u].ANONY_NAME # users[v].ANONY_NAME

\* C28: OTP expiry of an unclaimed link.  When the cleanup task fires for an
\* issuer that still is as IssuePrivateLink left it (PRIVATE, no peer, the OTP
\* stored), it empties the issuer's OTP, and a later verification of the link
\* by another user fails with the expired/incorrect error.
C28_UnclaimedLinkExpires ==
    \A u \in UserIds :
        (/\ u \in otp_tasks
         /\ users[u].present /\ users[u].STATUS = "PRIVATE"
         /\ ~Truthy(users[u].PEER_ID) /\ Truthy(users[u].OTP))
            => /\ ~Truthy(clean_otp(users, u).tbl[u].OTP)
               /\ \A c \in UserIds \ {u}, link_text \in LinksFor(users[u].OTP, u) :
                     verify_private_link(clean_otp(users, u).tbl, link_text, c).ret.status
                         = "otp_mismatch"

\* C29: frame and guard of the OTP cleanup task.  Whenever it fires, it acts
\* on the status the row has then: with RANDOM, PRIVATE, CONNECTED, CLOSED or
\* AI it writes nothing; otherwise it empties that user's OTP; it never
\* changes a status, a peer_id or another user's OTP.
C29_CleanupGuardAndFrame ==
    \A u \in UserIds :
        u \in otp_tasks
            => clean_otp(users, u).tbl
                 = (IF users[u].present /\ users[u].STATUS \notin KeepOtpStatuses
                    THEN [users EXCEPT ![u].OTP = EmptyText]
                    ELSE users)

\* The task of a user fires while that user, by now in a status outside the
\* five, holds an OTP, and the task of a user in one of the five is pending.
C29_Witness ==
    \E u, v \in UserIds :
        /\ u \in otp_tasks /\ users[u].present
        /\ users[u].STATUS \notin KeepOtpStatuses /\ Truthy(users[u].OTP)
        /\ clean_otp(users, u).ret.status = "cleared"
        /\ v \in otp_tasks /\ users[v].present
        /\ users[v].STATUS \in KeepOtpStatuses /\ Truthy(users[v].OTP)
        /\ clean_otp(users, v).ret.status = "kept"

\* C30, as stated: check_user_status returns "already_connected" for a user
\* PRIVATE with a peer, and "otp_exists" with the stored OTP for a user that
\* holds an OTP, in any status; in both cases the table is left as it is.
C30_IssueNonMutatingPaths ==
    \A u \in UserIds :
        users[u].present
            => \A o \in check_user_status(users, u) :
                  /\ (users[u].STATUS = "PRIVATE" /\ Truthy(users[u].PEER_ID))
                        => (o.ret.status = "already_connected" /\ o.tbl = users)
                  /\ Truthy(users[u].OTP)
                        => /\ o.ret.status = "otp_exists"
                           /\ otp_from_link(o.ret.connection_string) = users[u].OTP
                           /\ o.tbl = users

\* C30, amended: "otp_exists" is returned for a user that holds an OTP and
\* is not PRIVATE with a peer; a user PRIVATE with a peer gets
\* "already_connected" whether it holds an OTP or not.
C30_IssueNonMutatingPathsOrdered ==
    \A u \in UserIds :
        users[u].present
            => \A o \in check_user_status(users, u) :
                  /\ (users[u].STATUS = "PRIVATE" /\ Truthy(users[u].PEER_ID))
                        => (o.ret.status = "already_connected" /\ o.tbl = users)
                  /\ (/\ Truthy(users[u].OTP)
                      /\ ~(users[u].STATUS = "PRIVATE" /\ Truthy(users[u].PEER_ID)))
                        => /\ o.ret.status = "otp_exists"
                           /\ otp_from_link(o.ret.connection_string) = users[u].OTP
                           /\ o.tbl = users

\* A user privately connected to another, each naming the other, that still
\* holds the OTP of a link of its own and is answered "already_connected".
C30_Witness ==
    \E u, v \in UserIds :
        /\ Bilateral(users, u, v)
        /\ users[u].STATUS = "PRIVATE" /\ users[v].STATUS = "PRIVATE"
        /\ Truthy(users[u].OTP)
        /\ \E o \in check_user_status(users, u) : o.ret.status = "already_connected"

C32_ListenerStop ==
    \A u \in UserIds :
        (users[u].present /\ users[u].STATUS = "LISTENER" /\ Truthy(users[u].PEER_ID))
            => /\ \A o \in handle_stop_button(users, u) :
                      /\ ClosedNoPeer(o.tbl, u)
                      /\ SameOutside(users, o.tbl, {u})
               /\ BroadcastersOf(users, users[u].PEER_ID) # {}
                      => \A n \in stop_notices(users, u) :
                             /\ n.sent_to # {}
                             /\ n.sent_to \subseteq BroadcastersOf(users, users[u].PEER_ID)
                             /\ n.count = Cardinality(
                                    ListenersOn(users, users[u].PEER_ID) \ {u})

\* C33: joining a broadcast.  A text that does not start with '/BCST' changes
\* no row.  A text that does makes the caller LISTENER with the short code of
\* the text as peer_id whatever its status was, changes no other row, and a
\* BROADCASTER of that code, if there is one, is sent the number of users that
\* are LISTENER on the code after the join, the joiner among them.
C33_JoinBroadcast ==
    \A u \in UserIds, text \in ChannelTexts :
        users[u].present =>
            LET o == process_broadcasting_channel_id(users, u, text)
                code == convert_to_fixed_code(Strip(text))
            IN  IF ~StartsWith(text, PrefixBCST) THEN o.tbl = users
                ELSE /\ o.tbl[u].STATUS = "LISTENER"
                     /\ o.tbl[u].PEER_ID = code
                     /\ SameOutside(users, o.tbl, {u})
                     /\ o.tbl[u].ANONY_NAME = users[u].ANONY_NAME
                     /\ BroadcastersOf(users, code) # {}
                            => \A n \in join_notices(users, u, text) :
                                   /\ n.sent_to # {}
                                   /\ n.sent_to \subseteq BroadcastersOf(users, code)
                                   /\ u \in ListenersOn(o.tbl, code)
                                   /\ n.count = Cardinality(ListenersOn(o.tbl, code))

\* A user who is already a listener of a channel that has a broadcaster joins
\* it again, and the broadcaster is told of one listener.
C33_Witness ==
    \E u, b \in UserIds, text \in ChannelTexts :
        /\ u # b
        /\ StartsWith(text, PrefixBCST)
        /\ users[u].present
        /\ u \in ListenersOn(users, convert_to_fixed_code(Strip(text)))
        /\ b \in BroadcastersOf(users, convert_to_fixed_code(Strip(text)))
        /\ \E n \in join_notices(users, u, text) :
               n.sent_to = {b} /\ n.delivered = {b} /\ n.count = 1

C35_NotConnectedNoPeer ==
    \A u \in UserIds :
        (users[u].present /\ users[u].STATUS \in {"OPEN", "IDLE", "CLOSED"})
            => ~Truthy(users[u].PEER_ID)

\* The tables one operation of user u itself can make of tbl: stop, forward,
\* a random-match request, the issue of a private link, the claim of a link
\* and the confirmation of a claim, the join of a channel, the start of a
\* broadcast, an /AN request, and the answer to an /AN request of any other
\* user.
OwnSteps(tbl, u) ==
    {o.tbl : o \in handle_stop_button(tbl, u)}
    \cup {handle_forward_button(tbl, u).tbl}
    \cup {o.tbl : o \in find_random_partner(tbl, u)}
    \cup {o.tbl : o \in check_user_status(tbl, u)}
    \cup {verify_private_link(tbl, link_text, u).tbl : link_text \in LinkTexts}
    \cup {confirm_private_link(tbl, u, c).tbl : c \in UserIds \ {u}}
    \cup {process_broadcasting_channel_id(tbl, u, text).tbl : text \in ChannelTexts}
    \cup {o.tbl : o \in issue_broadcast_channel(tbl, u)}
    \cup UNION {{o.tbl : o \in handle_an_command(tbl, u, message_text)} :
                   message_text \in ANTexts}
    \cup UNION {{o.tbl : o \in handle_an_connection_response(tbl, u, v, action)} :
                   v \in UserIds \ {u}, action \in {"accept", "decline"}}

\* The tables any sequence of operations of user u itself can make, from the
\* tables seen so far and those found last.
RECURSIVE OwnReach(_, _, _)
OwnReach(seen, frontier, u) ==
    IF frontier = {} THEN seen
    ELSE LET found == (UNION {OwnSteps(t, u) : t \in frontier}) \ seen
         IN  OwnReach(seen \cup found, found, u)

\* C36: CLOSED is transient.  From every state in which a user is CLOSED some
\* sequence of that user's own operations leads to a state in which it is
\* OPEN or IDLE again, the statuses that a random match selects or admits.
C36_ClosedIsTransient ==
    \A u \in UserIds :
        (users[u].present /\ users[u].STATUS = "CLOSED")
            => \E t \in OwnReach({users}, {users}, u) :
                   t[u].STATUS \in {"OPEN", "IDLE"}

\* C37: registration is lazy, idempotent and keeps identities.  For a user id
\* with no row add_user_to_users_table makes one row, OPEN with empty peer_id
\* and empty otp, and changes no other; for a registered user id it changes
\* nothing; and no step of any operation removes a row or changes its
\* anony_name.
C37_Registration ==
    [][/\ \A u \in UserIds, n \in AnonyNames :
              LET t == add_user_to_users_table(users, u, n)
              IN  IF users[u].present THEN t = users
                  ELSE /\ t[u] = [present |-> TRUE, PEER_ID |-> EmptyText,
                                  STATUS |-> "OPEN", OTP |-> EmptyText,
                                  ANONY_NAME |-> n]
                       /\ SameOutside(users, t, {u})
       /\ \A w \in UserIds :
              users[w].present
                  => users'[w].present /\ users'[w].ANONY_NAME = users[w].ANONY_NAME
      ]_vars

\* A user in a connection made by an accepted /AN request, with an OTP still
\* stored, for whom a registration under another name changes nothing.
C37_Witness ==
    \E u \in UserIds, n \in AnonyNames :
        /\ users[u].present /\ users[u].STATUS = "CONNECTED"
        /\ Truthy(users[u].PEER_ID) /\ Truthy(users[u].OTP)
        /\ n # users[u].ANONY_NAME
        /\ add_user_to_users_table(users, u, n) = users

\* C38: no self-pairing.  In every reachable state no row has its own user id
\* as peer_id.
C38_NoSelfPairing ==
    \A u \in UserIds : users[u].present => users[u].PEER_ID # UserIdText[u]

\* A user connected to another user by an accepted /AN request, whose /AN
\* request for its own name is refused.
C38_Witness ==
    \E u, v \in UserIds :
        /\ Bilateral(users, u, v) /\ users[u].STATUS = "CONNECTED"
        /\ \A o \in handle_an_command(users, u, PrefixAN \o users[u].ANONY_NAME) :
               o.ret.status = "self" /\ o.tbl = users

\* C39: no one-way relay.  Whenever handle_message delivers a message of a
\* sender in a bilateral status (RANDOM, PRIVATE, CONNECTED) to a user, that
\* user is in a bilateral status and has the sender as peer_id.
C39_NoOneWayRelay ==
    \A u \in UserIds :
        (users[u].present /\ users[u].STATUS \in PairedStatuses)
            => \A o \in handle_message(users, u) :
                   \A p \in o.delivered :
                       PointsAt(users, p, u) /\ users[p].STATUS \in PairedStatuses

\* C40: disconnect touches only the pair.  handle_stop_button by user u
\* changes the row of u and, when u is in a bilateral status, the row of a
\* user that had u as peer_id; the row of a user that did not have u as
\* peer_id is left as it was.
C40_StopTouchesOnlyPair ==
    \A u \in UserIds :
        users[u].present
            => \A o \in handle_stop_button(users, u) :
                   \A w \in UserIds \ {u} :
                       o.tbl[w] # users[w]
                           => /\ users[u].STATUS \in PairedStatuses
                              /\ PointsAt(users, w, u)

====
